---- MODULE Spec2Model ----
(***************************************************************************)
(* Model of moderation/__init__.py: the ModerationManager registry, the    *)
(* pre_save / post_save handlers it connects to tracked model classes, and *)
(* the GenericModerator notification.                                      *)
(*                                                                         *)
(* A tracked instance is [ct, pk, val]: its model class, its primary key   *)
(* (0 = not yet assigned) and its field values.  Live storage is one table *)
(* per model class, a sequence indexed by the auto-incremented key.  The   *)
(* ModeratedObject table is a sequence of rows, indexed by row id.         *)
(***************************************************************************)
EXTENDS Integers, Sequences, FiniteSets, TLC

VARIABLES registered_models, pre_save_receivers, post_save_receivers,
          live, moderated, approved, writers, race, last

vars == <<registered_models, pre_save_receivers, post_save_receivers,
          live, moderated, approved, writers, race, last>>

\* ------------------------------------------------------------------ bounds
MaxPk == 1
MaxVal == 2
MaxDepth == 3

Types == {"A", "B"}
Val == 1..MaxVal
Writers == {"w1", "w2"}

\* ------------------------------------------------------------- constants
MODERATION_STATUS_PENDING == "Pending"
MODERATION_STATUS_APPROVED == "Approved"
MODERATION_STATUS_REJECTED == "Rejected"

NoError == "ok"
NoObject == [ct |-> "none", pk |-> 0, val |-> 0]
NoModerator == [kind |-> "none", notify_moderator |-> FALSE]

\* Moderator classes a caller can pass to register(): GenericModerator with
\* its class defaults, a subclass that clears notify_moderator, or a class
\* that does not subclass GenericModerator.
GenericModerator == [kind |-> "GenericModerator", notify_moderator |-> TRUE]
QuietModerator == [kind |-> "GenericModerator", notify_moderator |-> FALSE]
NotAModerator == [kind |-> "object", notify_moderator |-> FALSE]

\* Acting contexts of a write: one matching no auto-approval rule, one
\* matching an allow rule (auto_approve_for_staff, auto_approve_for_groups),
\* one matching an allow rule and the deny rule (auto_reject_for_groups).
Actors == {"user", "staff", "denied_staff"}
MatchesAllow(actor) == actor \in {"staff", "denied_staff"}
MatchesDeny(actor) == actor = "denied_staff"

\* ------------------------------------------------------- database access
\* The state the handlers read and write while one call runs: both tables,
\* the mails sent, the ModeratedObject rows written, the storage writes of
\* tracked instances, the mail transport's health for this call, and the
\* exception raised (NoError while none).
Db(lv, mo, smtp) ==
    [live |-> lv, moderated |-> mo, mails |-> 0, writes |-> 0, lwrites |-> 0,
     smtp |-> smtp, err |-> NoError]

Raise(D, e) == [D EXCEPT !.err = e]

HasRow(D, ct, pk) == ct \in Types /\ pk \in DOMAIN D.live[ct]

\* instance.__class__._default_manager.get(pk=pk)
DefaultManagerGet(D, ct, pk) == [ct |-> ct, pk |-> pk, val |-> D.live[ct][pk]]

\* ModeratedObject.objects.get(object_pk=pk): the rows matching the key.
ModeratedObjectsGet(D, pk) == {i \in DOMAIN D.moderated : D.moderated[i].object_pk = pk}

\* content_object.moderated_object: the generic relation's get(), by
\* content type and key.
ModeratedObjectOf(D, inst) ==
    {i \in DOMAIN D.moderated :
        /\ D.moderated[i].object_pk = inst.pk
        /\ D.moderated[i].content_type = inst.ct}

\* ModeratedObject(content_object=obj): a new, unsaved row (id 0).
NewModeratedObject(obj) ==
    [id |-> 0, content_type |-> obj.ct, object_pk |-> obj.pk,
     moderation_status |-> MODERATION_STATUS_PENDING, changed_object |-> obj]

\* moderated_object._is_not_equal_instance(instance): field-wise comparison
\* of the stored snapshot with the instance.
IsNotEqualInstance(mo, inst) == mo.changed_object # inst

\* moderated_object.save(): insert a new row or overwrite the row of its id.
ModeratedObjectSave(D, mo) ==
    IF mo.id = 0
    THEN [D EXCEPT !.moderated = Append(@, [mo EXCEPT !.id = Len(D.moderated) + 1]),
                   !.writes = @ + 1]
    ELSE [D EXCEPT !.moderated[mo.id] = mo, !.writes = @ + 1]

\* ------------------------------------------------------ GenericModerator
Send(D, inst) ==
    LET own == ModeratedObjectOf(D, inst) IN
    IF own = {} THEN Raise(D, "DoesNotExist")
    ELSE IF Cardinality(own) > 1 THEN Raise(D, "MultipleObjectsReturned")
    ELSE IF ~D.smtp THEN Raise(D, "SMTPException")
    ELSE [D EXCEPT !.mails = @ + 1]

InformModerator(D, moderator, inst) ==
    IF moderator.notify_moderator THEN Send(D, inst) ELSE D

\* ----------------------------------------------------- ModerationManager
GetOrCreateModeratedObject(D, inst) ==
    IF ~HasRow(D, inst.ct, inst.pk)
    THEN [err |-> "DoesNotExist", obj |-> NewModeratedObject(inst)]
    ELSE
    LET unchanged_obj == DefaultManagerGet(D, inst.ct, inst.pk)
        found == ModeratedObjectsGet(D, inst.pk)
    IN  IF found = {}
        THEN [err |-> NoError, obj |-> NewModeratedObject(unchanged_obj)]
        ELSE IF Cardinality(found) > 1
        THEN [err |-> "MultipleObjectsReturned", obj |-> NewModeratedObject(inst)]
        ELSE LET moderated_object == D.moderated[CHOOSE i \in found : TRUE] IN
             IF IsNotEqualInstance(moderated_object, inst)
             THEN [err |-> NoError,
                   obj |-> [moderated_object EXCEPT !.changed_object = unchanged_obj]]
             ELSE [err |-> NoError, obj |-> moderated_object]

PreSaveHandler(D, inst) ==
    IF inst.pk = 0 THEN D
    ELSE LET got == GetOrCreateModeratedObject(D, inst) IN
         IF got.err # NoError THEN Raise(D, got.err)
         ELSE ModeratedObjectSave(D, got.obj)

\* The storage write of Model.save(): UPDATE the row of the key, or INSERT
\* under the next key of the table.
StorageWrite(D, inst) ==
    IF HasRow(D, inst.ct, inst.pk)
    THEN [db |-> [D EXCEPT !.live[inst.ct][inst.pk] = inst.val, !.lwrites = @ + 1],
          inst |-> inst, created |-> FALSE]
    ELSE [db |-> [D EXCEPT !.live[inst.ct] = Append(@, inst.val), !.lwrites = @ + 1],
          inst |-> [inst EXCEPT !.pk = Len(D.live[inst.ct]) + 1],
          created |-> TRUE]

CopyModelInstance(obj) == [ct |-> obj.ct, pk |-> obj.pk, val |-> obj.val]

RECURSIVE ModelSave(_, _, _)
RECURSIVE PostSaveHandler(_, _, _, _)

\* A post_save_handler that informs the moderator on every update, also
\* when the instance equals the stored snapshot.
PostSaveHandlerInformingAlways(D, inst, created, depth) ==
    LET moderator_instance == registered_models[inst.ct] IN
    IF moderator_instance = NoModerator THEN Raise(D, "KeyError")
    ELSE IF created
    THEN LET old_object == DefaultManagerGet(D, inst.ct, inst.pk)
             D1 == ModeratedObjectSave(D, NewModeratedObject(old_object))
         IN  InformModerator(D1, moderator_instance, inst)
    ELSE
    LET found == ModeratedObjectsGet(D, inst.pk) IN
    IF found = {} THEN Raise(D, "DoesNotExist")
    ELSE IF Cardinality(found) > 1 THEN Raise(D, "MultipleObjectsReturned")
    ELSE
    LET moderated_object == D.moderated[CHOOSE i \in found : TRUE] IN
    IF ~IsNotEqualInstance(moderated_object, inst)
    THEN InformModerator(D, moderator_instance, inst)
    ELSE IF moderated_object.changed_object = NoObject THEN Raise(D, "AttributeError")
    ELSE
    LET copied_instance == CopyModelInstance(inst)
        D1 == ModelSave(D, moderated_object.changed_object, depth + 1)
    IN  IF D1.err # NoError THEN D1
        ELSE LET D2 == ModeratedObjectSave(D1,
                          [moderated_object EXCEPT
                              !.changed_object = copied_instance,
                              !.moderation_status = MODERATION_STATUS_PENDING])
             IN  InformModerator(D2, moderator_instance, inst)

\* A post_save_handler that informs the moderator before it saves the
\* record.
PostSaveHandlerInformingFirst(D, inst, created, depth) ==
    LET moderator_instance == registered_models[inst.ct] IN
    IF moderator_instance = NoModerator THEN Raise(D, "KeyError")
    ELSE IF created
    THEN LET old_object == DefaultManagerGet(D, inst.ct, inst.pk)
             D1 == InformModerator(D, moderator_instance, inst)
         IN  IF D1.err # NoError THEN D1
             ELSE ModeratedObjectSave(D1, NewModeratedObject(old_object))
    ELSE
    LET found == ModeratedObjectsGet(D, inst.pk) IN
    IF found = {} THEN Raise(D, "DoesNotExist")
    ELSE IF Cardinality(found) > 1 THEN Raise(D, "MultipleObjectsReturned")
    ELSE
    LET moderated_object == D.moderated[CHOOSE i \in found : TRUE] IN
    IF ~IsNotEqualInstance(moderated_object, inst) THEN D
    ELSE IF moderated_object.changed_object = NoObject THEN Raise(D, "AttributeError")
    ELSE
    LET copied_instance == CopyModelInstance(inst)
        D1 == ModelSave(D, moderated_object.changed_object, depth + 1)
    IN  IF D1.err # NoError THEN D1
        ELSE LET D2 == InformModerator(D1, moderator_instance, inst) IN
             IF D2.err # NoError THEN D2
             ELSE ModeratedObjectSave(D2,
                      [moderated_object EXCEPT
                          !.changed_object = copied_instance,
                          !.moderation_status = MODERATION_STATUS_PENDING])

\* A post_save_handler that saves the record with the new snapshot before
\* it restores the pre-write values.
PostSaveHandlerSavingFirst(D, inst, created, depth) ==
    LET moderator_instance == registered_models[inst.ct] IN
    IF moderator_instance = NoModerator THEN Raise(D, "KeyError")
    ELSE IF created
    THEN LET old_object == DefaultManagerGet(D, inst.ct, inst.pk)
             D1 == ModeratedObjectSave(D, NewModeratedObject(old_object))
         IN  InformModerator(D1, moderator_instance, inst)
    ELSE
    LET found == ModeratedObjectsGet(D, inst.pk) IN
    IF found = {} THEN Raise(D, "DoesNotExist")
    ELSE IF Cardinality(found) > 1 THEN Raise(D, "MultipleObjectsReturned")
    ELSE
    LET moderated_object == D.moderated[CHOOSE i \in found : TRUE] IN
    IF ~IsNotEqualInstance(moderated_object, inst) THEN D
    ELSE IF moderated_object.changed_object = NoObject THEN Raise(D, "AttributeError")
    ELSE
    LET copied_instance == CopyModelInstance(inst)
        D1 == ModeratedObjectSave(D,
                  [moderated_object EXCEPT
                      !.changed_object = copied_instance,
                      !.moderation_status = MODERATION_STATUS_PENDING])
        D2 == ModelSave(D1, moderated_object.changed_object, depth + 1)
    IN  IF D2.err # NoError THEN D2
        ELSE InformModerator(D2, moderator_instance, inst)

PostSaveHandler(D, inst, created, depth) ==
    LET moderator_instance == registered_models[inst.ct] IN
    IF moderator_instance = NoModerator THEN Raise(D, "KeyError")
    ELSE IF created
    THEN LET old_object == DefaultManagerGet(D, inst.ct, inst.pk)
             D1 == ModeratedObjectSave(D, NewModeratedObject(old_object))
         IN  InformModerator(D1, moderator_instance, inst)
    ELSE
    LET found == ModeratedObjectsGet(D, inst.pk) IN
    IF found = {} THEN Raise(D, "DoesNotExist")
    ELSE IF Cardinality(found) > 1 THEN Raise(D, "MultipleObjectsReturned")
    ELSE
    LET moderated_object == D.moderated[CHOOSE i \in found : TRUE] IN
    IF ~IsNotEqualInstance(moderated_object, inst) THEN D
    ELSE IF moderated_object.changed_object = NoObject THEN Raise(D, "AttributeError")
    ELSE
    LET copied_instance == CopyModelInstance(inst)
        D1 == ModelSave(D, moderated_object.changed_object, depth + 1)
    IN  IF D1.err # NoError THEN D1
        ELSE LET D2 == ModeratedObjectSave(D1,
                          [moderated_object EXCEPT
                              !.changed_object = copied_instance,
                              !.moderation_status = MODERATION_STATUS_PENDING])
             IN  InformModerator(D2, moderator_instance, inst)

\* Model.save() of a tracked instance: the pre_save signal, the storage
\* write, the post_save signal; a handler runs when it is connected for the
\* instance's class, and an exception ends the call where it is raised.
ModelSave(D, inst, depth) ==
    IF depth > MaxDepth THEN Raise(D, "RecursionError")
    ELSE
    LET D1 == IF inst.ct \in pre_save_receivers THEN PreSaveHandler(D, inst) ELSE D IN
    IF D1.err # NoError THEN D1
    ELSE LET w == StorageWrite(D1, inst) IN
         IF inst.ct \in post_save_receivers
         THEN PostSaveHandler(w.db, w.inst, w.created, depth)
         ELSE w.db


\* --------------------------------------------------------- state machine
\* The ModeratedObject rows of one tracked instance, by content type and key.
RecordsOf(mo, ct, pk) ==
    {i \in DOMAIN mo : mo[i].content_type = ct /\ mo[i].object_pk = pk}

StatusOf(mo, ct, pk) ==
    LET own == RecordsOf(mo, ct, pk) IN
    IF Cardinality(own) = 1 THEN mo[CHOOSE i \in own : TRUE].moderation_status
    ELSE "none"

ChangedOf(mo, ct, pk) ==
    LET own == RecordsOf(mo, ct, pk) IN
    IF Cardinality(own) = 1 THEN mo[CHOOSE i \in own : TRUE].changed_object
    ELSE NoObject

LiveOf(lv, ct, pk) == IF ct \in Types /\ pk \in DOMAIN lv[ct] THEN lv[ct][pk] ELSE 0

\* Moderated read of one instance: the row as it exists in live storage.
ModeratedRead(ct, pk) == LiveOf(live, ct, pk)

IdleWriter == [pc |-> "idle", inst |-> NoObject, created |-> FALSE]
AllIdle == \A w \in Writers : writers[w].pc = "idle"
NoRace == [n |-> 0, ct |-> "none", pk |-> 0, base |-> 0, vals |-> {}, failed |-> FALSE]

\* What the last operation was, the live value and the registry it found and
\* what it did.
Outcome(op, inst, pk, D, actor) ==
    [op |-> op, ct |-> inst.ct, pk |-> pk, val |-> inst.val,
     pre |-> LiveOf(live, inst.ct, pk), registry |-> registered_models,
     mails |-> D.mails, writes |-> D.writes, lwrites |-> D.lwrites,
     err |-> D.err, actor |-> actor]

Init ==
    /\ registered_models = [t \in Types |-> NoModerator]
    /\ pre_save_receivers = {}
    /\ post_save_receivers = {}
    /\ live = [t \in Types |-> << >>]
    /\ moderated = << >>
    /\ approved = [t \in Types |-> [p \in 1..MaxPk |-> {}]]
    /\ writers = [w \in Writers |-> IdleWriter]
    /\ race = NoRace
    /\ last = [op |-> "init", ct |-> "none", pk |-> 0, val |-> 0, pre |-> 0,
               registry |-> [t \in Types |-> NoModerator],
               mails |-> 0, writes |-> 0, lwrites |-> 0, err |-> NoError,
               actor |-> "user"]

\* A register that replaces the moderator of a class that is registered.
RegisterReplacing(t, moderator_class) ==
    /\ AllIdle
    /\ LET D == Db(live, moderated, TRUE)
           e == IF moderator_class.kind # "GenericModerator" THEN "AttributeError"
                ELSE NoError
       IN  /\ last' = Outcome("register", [ct |-> t, pk |-> 0, val |-> 0], 0,
                              Raise(D, e), "user")
           /\ IF e = NoError
              THEN /\ registered_models' = [registered_models EXCEPT ![t] = moderator_class]
                   /\ pre_save_receivers' = pre_save_receivers \cup {t}
                   /\ post_save_receivers' = post_save_receivers \cup {t}
              ELSE UNCHANGED <<registered_models, pre_save_receivers, post_save_receivers>>
    /\ race' = NoRace
    /\ UNCHANGED <<live, moderated, approved, writers>>

\* moderation.register(model_class, moderator_class)
Register(t, moderator_class) ==
    /\ AllIdle
    /\ LET D == Db(live, moderated, TRUE)
           e == IF registered_models[t] # NoModerator THEN "RegistrationError"
                ELSE IF moderator_class.kind # "GenericModerator" THEN "AttributeError"
                ELSE NoError
       IN  /\ last' = Outcome("register", [ct |-> t, pk |-> 0, val |-> 0], 0,
                              Raise(D, e), "user")
           /\ IF e = NoError
              THEN /\ registered_models' = [registered_models EXCEPT ![t] = moderator_class]
                   /\ pre_save_receivers' = pre_save_receivers \cup {t}
                   /\ post_save_receivers' = post_save_receivers \cup {t}
              ELSE UNCHANGED <<registered_models, pre_save_receivers, post_save_receivers>>
    /\ race' = NoRace
    /\ UNCHANGED <<live, moderated, approved, writers>>

\* An unregister that lets the pop pass for a class that is not registered.
UnregisterSilently(t) ==
    /\ AllIdle
    /\ LET D == Db(live, moderated, TRUE) IN
       last' = Outcome("unregister", [ct |-> t, pk |-> 0, val |-> 0], 0, D, "user")
    /\ registered_models' = [registered_models EXCEPT ![t] = NoModerator]
    /\ pre_save_receivers' = pre_save_receivers \ {t}
    /\ post_save_receivers' = post_save_receivers \ {t}
    /\ race' = NoRace
    /\ UNCHANGED <<live, moderated, approved, writers>>

\* An unregister that pops the registry entry and leaves the signal
\* handlers connected.
UnregisterKeepingSignals(t) ==
    /\ AllIdle
    /\ LET D == Db(live, moderated, TRUE)
           e == IF registered_models[t] = NoModerator THEN "RegistrationError" ELSE NoError
       IN  /\ last' = Outcome("unregister", [ct |-> t, pk |-> 0, val |-> 0], 0,
                              Raise(D, e), "user")
           /\ IF e = NoError
              THEN registered_models' = [registered_models EXCEPT ![t] = NoModerator]
              ELSE UNCHANGED registered_models
    /\ race' = NoRace
    /\ UNCHANGED <<pre_save_receivers, post_save_receivers, live, moderated,
                   approved, writers>>

\* moderation.unregister(model_class)
Unregister(t) ==
    /\ AllIdle
    /\ LET D == Db(live, moderated, TRUE)
           e == IF registered_models[t] = NoModerator THEN "RegistrationError" ELSE NoError
       IN  /\ last' = Outcome("unregister", [ct |-> t, pk |-> 0, val |-> 0], 0,
                              Raise(D, e), "user")
           /\ IF e = NoError
              THEN /\ registered_models' = [registered_models EXCEPT ![t] = NoModerator]
                   /\ pre_save_receivers' = pre_save_receivers \ {t}
                   /\ post_save_receivers' = post_save_receivers \ {t}
              ELSE UNCHANGED <<registered_models, pre_save_receivers, post_save_receivers>>
    /\ race' = NoRace
    /\ UNCHANGED <<live, moderated, approved, writers>>

\* One whole instance.save() by an actor; pk = 0 creates, another pk updates.
\* A value written while the class is not under moderation is public from
\* the start; `approved` records it with the values decisions approved.
Save(t, pk, val, actor, smtp) ==
    /\ AllIdle
    /\ pk \in {0} \cup DOMAIN live[t]
    /\ pk = 0 => Len(live[t]) < MaxPk
    /\ LET inst == [ct |-> t, pk |-> pk, val |-> val]
           D == ModelSave(Db(live, moderated, smtp), inst, 0)
           key == IF pk = 0 THEN Len(live[t]) + 1 ELSE pk
       IN  /\ live' = D.live
           /\ moderated' = D.moderated
           /\ approved' = IF t \in post_save_receivers \/ t \in pre_save_receivers
                          THEN approved
                          ELSE [approved EXCEPT ![t][key] = @ \cup {val}]
           /\ last' = Outcome(IF pk = 0 THEN "create" ELSE "update", inst, key, D, actor)
    /\ race' = NoRace
    /\ UNCHANGED <<registered_models, pre_save_receivers, post_save_receivers, writers>>

\* A moderator's decision on the record of (t, pk): legal only from Pending.
Decide(t, pk, status) ==
    /\ AllIdle
    /\ pk \in DOMAIN live[t]
    /\ LET own == RecordsOf(moderated, t, pk)
           D == Db(live, moderated, TRUE)
           inst == [ct |-> t, pk |-> pk, val |-> 0]
           op == IF status = MODERATION_STATUS_APPROVED THEN "approve" ELSE "reject"
       IN  IF Cardinality(own) # 1
           THEN /\ last' = Outcome(op, inst, pk, Raise(D, "NotFound"), "user")
                /\ UNCHANGED <<live, moderated, approved>>
           ELSE LET i == CHOOSE j \in own : TRUE
                    rec == moderated[i]
                IN  IF rec.moderation_status # MODERATION_STATUS_PENDING
                    THEN /\ last' = Outcome(op, inst, pk,
                                            Raise(D, "InvalidTransition"), "user")
                         /\ UNCHANGED <<live, moderated, approved>>
                    ELSE /\ last' = Outcome(op, [inst EXCEPT !.val = rec.changed_object.val],
                                            pk, D, "user")
                         /\ moderated' = [moderated EXCEPT
                                ![i].moderation_status = status,
                                ![i].changed_object = NoObject]
                         /\ IF status = MODERATION_STATUS_APPROVED
                            THEN /\ live' = [live EXCEPT ![t][pk] = rec.changed_object.val]
                                 /\ approved' = [approved EXCEPT
                                        ![t][pk] = @ \cup {rec.changed_object.val}]
                            ELSE UNCHANGED <<live, approved>>
    /\ race' = NoRace
    /\ UNCHANGED <<registered_models, pre_save_receivers, post_save_receivers, writers>>

Approve(t, pk) == Decide(t, pk, MODERATION_STATUS_APPROVED)
Reject(t, pk) == Decide(t, pk, MODERATION_STATUS_REJECTED)

\* Sequential use: registrations, whole writes by a plain user, decisions.
Next ==
    \/ \E t \in Types : Register(t, GenericModerator)
    \/ \E t \in Types, pk \in 0..MaxPk, v \in Val : Save(t, pk, v, "user", TRUE)
    \/ \E t \in Types, pk \in 1..MaxPk : Approve(t, pk)
    \/ \E t \in Types, pk \in 1..MaxPk : Reject(t, pk)

Spec == Init /\ [][Next]_vars

\* ------------------------------------------------ two concurrent writers
\* Two request threads update the same instance of a registered class; each
\* instance.save() is three steps (pre_save signal, storage write, post_save
\* signal) and nothing in the handlers locks the ModeratedObject row. `race`
\* records the overlap: the instance, the value persisted when the first
\* writer began, the values written, and whether a step raised; each writer
\* takes part in an overlap once.
BeginSave(w, t, pk, val) ==
    /\ writers[w].pc = "idle"
    /\ t \in pre_save_receivers
    /\ pk \in DOMAIN live[t]
    /\ ~AllIdle => (race.ct = t /\ race.pk = pk /\ race.n < Cardinality(Writers))
    /\ LET inst == [ct |-> t, pk |-> pk, val |-> val]
           D == PreSaveHandler(Db(live, moderated, TRUE), inst)
           r == IF AllIdle
                THEN [n |-> 1, ct |-> t, pk |-> pk, base |-> live[t][pk],
                      vals |-> {val}, failed |-> D.err # NoError]
                ELSE [race EXCEPT !.n = @ + 1, !.vals = @ \cup {val},
                                  !.failed = @ \/ D.err # NoError]
       IN  /\ moderated' = D.moderated
           /\ race' = r
           /\ writers' = IF D.err = NoError
                         THEN [writers EXCEPT ![w] = [pc |-> "write", inst |-> inst,
                                                      created |-> FALSE]]
                         ELSE writers
           /\ last' = Outcome("pre_save", inst, pk, D, "user")
    /\ UNCHANGED <<registered_models, pre_save_receivers, post_save_receivers,
                   live, approved>>

WriteStep(w) ==
    /\ writers[w].pc = "write"
    /\ LET wr == StorageWrite(Db(live, moderated, TRUE), writers[w].inst) IN
       /\ live' = wr.db.live
       /\ writers' = [writers EXCEPT ![w] = [pc |-> "post", inst |-> wr.inst,
                                             created |-> wr.created]]
       /\ last' = Outcome("write", wr.inst, wr.inst.pk, wr.db, "user")
    /\ UNCHANGED <<registered_models, pre_save_receivers, post_save_receivers,
                   moderated, approved, race>>

PostStep(w) ==
    /\ writers[w].pc = "post"
    /\ LET inst == writers[w].inst
           D == PostSaveHandler(Db(live, moderated, TRUE), inst, writers[w].created, 0)
       IN  /\ live' = D.live
           /\ moderated' = D.moderated
           /\ race' = [race EXCEPT !.failed = @ \/ D.err # NoError]
           /\ last' = Outcome("post_save", inst, inst.pk, D, "user")
    /\ writers' = [writers EXCEPT ![w] = IdleWriter]
    /\ UNCHANGED <<registered_models, pre_save_receivers, post_save_receivers, approved>>

NextConc ==
    \/ \E t \in Types : Register(t, GenericModerator)
    \/ \E t \in Types, pk \in 0..MaxPk, v \in Val : Save(t, pk, v, "user", TRUE)
    \/ \E w \in Writers, t \in Types, pk \in 1..MaxPk, v \in Val : BeginSave(w, t, pk, v)
    \/ \E w \in Writers : WriteStep(w)
    \/ \E w \in Writers : PostStep(w)

SpecConc == Init /\ [][NextConc]_vars

\* ------------------------------------------- after-write hook on its own
\* An update whose storage write and post_save signal happen without the
\* pre_save handler having run for it (the hook ordering is violated).
PostSaveOnly(t, pk, val) ==
    /\ AllIdle
    /\ t \in post_save_receivers
    /\ pk \in DOMAIN live[t]
    /\ LET inst == [ct |-> t, pk |-> pk, val |-> val]
           wr == StorageWrite(Db(live, moderated, TRUE), inst)
           D == PostSaveHandler(wr.db, wr.inst, FALSE, 0)
       IN  /\ live' = D.live
           /\ moderated' = D.moderated
           /\ last' = Outcome("post_only", inst, pk, D, "user")
    /\ race' = NoRace
    /\ UNCHANGED <<registered_models, pre_save_receivers, post_save_receivers,
                   approved, writers>>

NextHook ==
    \/ Next
    \/ \E t \in Types, pk \in 1..MaxPk, v \in Val : PostSaveOnly(t, pk, v)

SpecHook == Init /\ [][NextHook]_vars

\* ------------------------------------------------ writes by every actor
NextPolicy ==
    \/ \E t \in Types, mc \in {GenericModerator, QuietModerator} : Register(t, mc)
    \/ \E t \in Types, pk \in 0..MaxPk, v \in Val, actor \in Actors :
          Save(t, pk, v, actor, TRUE)
    \/ \E t \in Types, pk \in 1..MaxPk : Approve(t, pk)
    \/ \E t \in Types, pk \in 1..MaxPk : Reject(t, pk)

SpecPolicy == Init /\ [][NextPolicy]_vars

\* ------------------------------------------------- one moderated class
\* Class A alone under GenericModerator, mail delivery working: whole writes
\* and decisions.
NextSingle ==
    \/ Register("A", GenericModerator)
    \/ \E pk \in 0..MaxPk, v \in Val : Save("A", pk, v, "user", TRUE)
    \/ \E pk \in 1..MaxPk : Approve("A", pk)
    \/ \E pk \in 1..MaxPk : Reject("A", pk)

SpecSingle == Init /\ [][NextSingle]_vars

\* ------------------------------------------------------ failing delivery
\* Class A alone, with or without moderator notification; at each write the
\* mail transport is either up or down.
NextMail ==
    \/ \E mc \in {GenericModerator, QuietModerator} : Register("A", mc)
    \/ \E pk \in 0..MaxPk, v \in Val, smtp \in BOOLEAN : Save("A", pk, v, "user", smtp)

SpecMail == Init /\ [][NextMail]_vars

\* ------------------------------------------------- the registry over time
\* Registrations of class A with any class offered as moderator and of
\* class B, unregistrations of both, and whole writes to class A, registered
\* or not at the time.
NextReg ==
    \/ \E mc \in {GenericModerator, QuietModerator, NotAModerator} : Register("A", mc)
    \/ Register("B", GenericModerator)
    \/ \E t \in Types : Unregister(t)
    \/ \E pk \in 0..MaxPk, v \in Val : Save("A", pk, v, "user", TRUE)

SpecReg == Init /\ [][NextReg]_vars

\* ---------------------------------------------------------------- claims
\* The last operation was a whole write of an instance whose class has the
\* handlers connected, and it ended without an exception.
CompletedWrite ==
    /\ last.op \in {"create", "update"}
    /\ last.ct \in post_save_receivers
    /\ last.err = NoError

\* The step is a whole write (as above) of an existing instance.
UpdateStep ==
    /\ last'.op = "update"
    /\ last'.ct \in post_save_receivers
    /\ last'.err = NoError

\* C1: after each completed write of a tracked instance, the value a
\* moderated read finds in live storage is absent or a value that was
\* approved before; never a value written but not yet approved.
C1_ModeratedReadOnlyApproved ==
    CompletedWrite =>
        ModeratedRead(last.ct, last.pk) \in {0} \cup approved[last.ct][last.pk]

\* C2: there is exactly one ModeratedObject row per (content type, key):
\* no pair ever has two, and every instance written under moderation has one.
C2_OneRecordPerInstance ==
    /\ \A t \in Types, p \in 1..MaxPk : Cardinality(RecordsOf(moderated, t, p)) <= 1
    /\ CompletedWrite => Cardinality(RecordsOf(moderated, last.ct, last.pk)) = 1

\* C3: an update whose values differ from the values persisted just before
\* it leaves live storage at the pre-write values, the record's snapshot at
\* the written values and the status Pending.
C3_ChangedUpdateHeldBack ==
    (CompletedWrite /\ last.op = "update" /\ last.val # last.pre) =>
        /\ LiveOf(live, last.ct, last.pk) = last.pre
        /\ ChangedOf(moderated, last.ct, last.pk) =
              [ct |-> last.ct, pk |-> last.pk, val |-> last.val]
        /\ StatusOf(moderated, last.ct, last.pk) = MODERATION_STATUS_PENDING

\* C4: an update of an instance that has a record, whose values equal the
\* values persisted just before it, changes neither the record's status nor
\* its snapshot, and sends no mail.
C4_UnchangedUpdateIsNoOp ==
    [][(UpdateStep /\ last'.val = last'.pre
           /\ RecordsOf(moderated, last'.ct, last'.pk) # {}) =>
          /\ StatusOf(moderated', last'.ct, last'.pk) =
                StatusOf(moderated, last'.ct, last'.pk)
          /\ ChangedOf(moderated', last'.ct, last'.pk) =
                ChangedOf(moderated, last'.ct, last'.pk)
          /\ last'.mails = 0]_vars

\* C5: every completed edit of an instance whose record is Approved or
\* Rejected leaves the record Pending, whatever values it submits.
C5_EditOfDecidedIsPending ==
    [][(UpdateStep /\ StatusOf(moderated, last'.ct, last'.pk) \in
                         {MODERATION_STATUS_APPROVED, MODERATION_STATUS_REJECTED}) =>
          StatusOf(moderated', last'.ct, last'.pk) = MODERATION_STATUS_PENDING]_vars

\* C6: after a completed write the record's snapshot is non-null exactly
\* when its status is Pending.
C6_SnapshotIffPending ==
    (CompletedWrite /\ RecordsOf(moderated, last.ct, last.pk) # {}) =>
        (ChangedOf(moderated, last.ct, last.pk) # NoObject
           <=> StatusOf(moderated, last.ct, last.pk) = MODERATION_STATUS_PENDING)

\* C7: when two overlapping updates of one instance have both completed,
\* live storage holds the value persisted before either began and the
\* record's snapshot holds one of the two written values.
C7_RaceKeepsBaseline ==
    (AllIdle /\ race.n = 2 /\ ~race.failed) =>
        /\ LiveOf(live, race.ct, race.pk) = race.base
        /\ ChangedOf(moderated, race.ct, race.pk).val \in race.vals

\* C8: the after-write hook of an update for which no pre-write snapshot was
\* captured fails with an error, leaves the written value in live storage
\* and leaves the record's status and snapshot as they were.
C8_MissingBaselineFails ==
    [][(last'.op = "post_only") =>
          /\ last'.err # NoError
          /\ LiveOf(live', last'.ct, last'.pk) = last'.val
          /\ StatusOf(moderated', last'.ct, last'.pk) =
                StatusOf(moderated, last'.ct, last'.pk)
          /\ ChangedOf(moderated', last'.ct, last'.pk) =
                ChangedOf(moderated, last'.ct, last'.pk)]_vars

\* C9: a create by an actor who matches an allow rule (and no deny rule)
\* yields a record that is Approved from the start and sends no moderator
\* mail; a create sends the mail only when the record is Pending.
C9_AutoApprovedCreate ==
    (CompletedWrite /\ last.op = "create") =>
        /\ (MatchesAllow(last.actor) /\ ~MatchesDeny(last.actor)) =>
              /\ StatusOf(moderated, last.ct, last.pk) = MODERATION_STATUS_APPROVED
              /\ last.mails = 0
        /\ last.mails > 0 =>
              StatusOf(moderated, last.ct, last.pk) = MODERATION_STATUS_PENDING

\* C10: after every create or update by an actor who matches the deny rule
\* the record is Pending, also when the actor matches an allow rule.
C10_DenyForcesPending ==
    (CompletedWrite /\ MatchesDeny(last.actor)) =>
        StatusOf(moderated, last.ct, last.pk) = MODERATION_STATUS_PENDING

\* C11: every completed triggering write (create, unchanged update, changed
\* update) causes exactly one storage write to the ModeratedObject table,
\* the writes of re-entrant hooks included.
C11_OneRecordWritePerWrite ==
    CompletedWrite => last.writes = 1

\* C12: an update that changes field values dispatches at most one moderator
\* notification, the notifications of the hooks re-entered by the restore
\* write included.
C12_AtMostOneNotification ==
    (last.op = "update" /\ last.val # last.pre /\ last.ct \in post_save_receivers)
        => last.mails <= 1

\* A changed update whose restore write re-entered the hooks and that sent
\* its one notification.
C12_Witness ==
    /\ CompletedWrite
    /\ last.op = "update"
    /\ last.val # last.pre
    /\ last.lwrites = 2
    /\ last.mails = 1

\* C13: registering a class that is already registered raises
\* RegistrationError and changes nothing: the registry entry keeps its
\* moderator, no handler is connected again, no row is touched.
C13_DuplicateRegistration ==
    [][(last'.op = "register" /\ registered_models[last'.ct] # NoModerator) =>
          /\ last'.err = "RegistrationError"
          /\ UNCHANGED <<registered_models, pre_save_receivers, post_save_receivers,
                         live, moderated>>]_vars

\* A registration of a registered class was refused.
C13_Witness ==
    /\ last.op = "register"
    /\ last.err = "RegistrationError"
    /\ last.registry[last.ct] # NoModerator
    /\ registered_models = last.registry

\* C14: when the moderator notification of a create or a changed update
\* fails, what the after-write hook wrote stays: the instance has its one
\* record, Pending, holding the written values as snapshot, and live storage
\* holds the created values (create) or the restored pre-write values
\* (update).
C14_FailedMailKeepsTransition ==
    last.err = "SMTPException" =>
        /\ last.op \in {"create", "update"}
        /\ Cardinality(RecordsOf(moderated, last.ct, last.pk)) = 1
        /\ StatusOf(moderated, last.ct, last.pk) = MODERATION_STATUS_PENDING
        /\ ChangedOf(moderated, last.ct, last.pk) =
               [ct |-> last.ct, pk |-> last.pk, val |-> last.val]
        /\ LiveOf(live, last.ct, last.pk) =
               (IF last.op = "create" THEN last.val ELSE last.pre)
        /\ last.writes >= 1
        /\ last.mails = 0

\* The notification of a changed update failed after the restore write.
C14_Witness ==
    /\ last.err = "SMTPException"
    /\ last.op = "update"
    /\ last.val # last.pre
    /\ last.lwrites = 2
    /\ LiveOf(live, last.ct, last.pk) = last.pre

\* C15: the restore write of the after-write hook re-enters both hooks and
\* the re-entry ends: a write under moderation makes at most two storage
\* writes of the instance (its own and one restore) and never exhausts the
\* call stack; when the restore happened and the write completed, the
\* nested after-write hook wrote nothing to the record (three record writes:
\* before-write hook, nested before-write hook, after-write hook), sent no
\* notification of its own, and live storage holds the pre-write values.
C15_RestoreReentryTerminates ==
    (last.op \in {"create", "update"} /\ last.ct \in post_save_receivers) =>
        /\ last.err # "RecursionError"
        /\ last.lwrites <= 2
        /\ (last.lwrites = 2 /\ last.err = NoError) =>
              /\ last.op = "update"
              /\ last.writes = 3
              /\ last.mails <= 1
              /\ LiveOf(live, last.ct, last.pk) = last.pre

\* A completed update whose restore write re-entered the hooks once.
C15_Witness ==
    /\ last.op = "update"
    /\ last.ct \in post_save_receivers
    /\ last.err = NoError
    /\ last.lwrites = 2
    /\ last.writes = 3
    /\ LiveOf(live, last.ct, last.pk) = last.pre
    /\ last.val # last.pre

\* C16: an update of a stored instance that has no record yet (written
\* before its class was registered) gets the record from the before-write
\* hook, so the write completes and the instance has its one record; a
\* create, whose instance has no key in the before-write hook, gets its
\* record written by the after-write hook alone.
C16_LegacyRowGetsRecord ==
    [][/\ (/\ last'.op = "update"
           /\ last'.ct \in pre_save_receivers
           /\ RecordsOf(moderated, last'.ct, last'.pk) = {}) =>
              /\ last'.err = NoError
              /\ Cardinality(RecordsOf(moderated', last'.ct, last'.pk)) = 1
       /\ (/\ last'.op = "create"
           /\ last'.ct \in pre_save_receivers
           /\ last'.err = NoError) =>
              last'.writes = 1]_vars

\* C17: a write to an instance of one class never modifies the record of an
\* instance of another class, and never fails because such a record has
\* the same key: the hooks resolve the record by class and key together.
C17_OtherClassRecordUntouched ==
    [][last'.op \in {"create", "update"} =>
          /\ \A i \in DOMAIN moderated :
                moderated[i].content_type # last'.ct =>
                    (i \in DOMAIN moderated' /\ moderated'[i] = moderated[i])
          /\ last'.err # "MultipleObjectsReturned"]_vars

\* C18: after every register and unregister call a class has its before-
\* write and after-write handlers connected exactly when it is in the
\* registry; an unregister right after the register of the same class gives
\* back the registry the register found; a write to a class that is not
\* registered is not intercepted (no record read or written, no mail, the
\* values go to live storage); and a class that is not registered can be
\* registered without RegistrationError.
C18_RegistryMatchesHooks ==
    [][/\ \A t \in Types :
             /\ t \in pre_save_receivers' <=> registered_models'[t] # NoModerator
             /\ t \in post_save_receivers' <=> registered_models'[t] # NoModerator
       /\ (/\ last'.op = "unregister"
           /\ last.op = "register" /\ last.err = NoError /\ last.ct = last'.ct) =>
              /\ last'.err = NoError
              /\ registered_models' = last.registry
       /\ (/\ last'.op \in {"create", "update"}
           /\ registered_models[last'.ct] = NoModerator) =>
              /\ last'.err = NoError
              /\ last'.writes = 0 /\ last'.mails = 0
              /\ moderated' = moderated
              /\ LiveOf(live', last'.ct, last'.pk) = last'.val
       /\ (/\ last'.op = "register"
           /\ registered_models[last'.ct] = NoModerator) =>
              last'.err # "RegistrationError"]_vars

\* A class that was registered, had a write intercepted and was unregistered
\* is written to without interception.
C18_Witness ==
    /\ last.op = "update"
    /\ registered_models[last.ct] = NoModerator
    /\ last.ct \notin pre_save_receivers \cup post_save_receivers
    /\ RecordsOf(moderated, last.ct, last.pk) # {}
    /\ last.writes = 0
    /\ last.err = NoError

\* C19: unregistering a class that is not in the registry raises
\* RegistrationError and changes nothing: the registry and the handler
\* connections of every class, and the tables, are as before the call.
C19_UnregisterUnknown ==
    [][(last'.op = "unregister" /\ registered_models[last'.ct] = NoModerator) =>
          /\ last'.err = "RegistrationError"
          /\ UNCHANGED <<registered_models, pre_save_receivers, post_save_receivers,
                         live, moderated>>]_vars

\* An unregister of an unregistered class was refused while the other class
\* was registered.
C19_Witness ==
    /\ last.op = "unregister"
    /\ last.err = "RegistrationError"
    /\ last.registry[last.ct] = NoModerator
    /\ registered_models = last.registry
    /\ \E t \in Types \ {last.ct} :
          /\ registered_models[t] # NoModerator
          /\ t \in pre_save_receivers \cap post_save_receivers

====
